---- MODULE Spec2Model ----
(***************************************************************************)
(* Ownership wrappers around CoreFoundation handles, as generated by the   *)
(* macros declare_TCFType!, impl_TCFType!, impl_CFTypeDescription! and     *)
(* impl_CFComparison! of core-foundation/src/lib.rs.                       *)
(*                                                                         *)
(* The foreign heap is a reference count per handle.  A wrapper value is   *)
(* the tuple struct $ty($raw, PhantomData...): [ref, ph].  The generated   *)
(* methods are operators on a "world" [count, calls, ub]: the foreign      *)
(* counts, the foreign calls the running operation has issued so far, and  *)
(* whether one of them hit a deallocated object.  Wrapper instances are    *)
(* numbered in creation order and a number is never reused.                *)
(*                                                                         *)
(* Spec      a caller that follows the two acquisition rules               *)
(* SpecMis   a caller that misclassifies one handle                        *)
(* SpecConc  threads cloning and dropping their own wrappers               *)
(* SpecObs   a caller that compares, converts and inspects wrappers        *)
(* SpecDecl  the same caller, for a type named in either macro form        *)
(* SpecDesc  a caller that also asks for descriptions                      *)
(***************************************************************************)
EXTENDS Integers, Sequences, FiniteSets

\* ---------------------------------------------------------------- bounds
NumHandles == 2      \* distinct non-null foreign objects
MaxWrappers == 2     \* wrapper instances the caller constructs in one run
MaxExt == 1          \* count units held outside the wrappers, per handle
MaxParams == 1       \* generic type parameters a wrapper type may carry
NumThreads == 2      \* threads of the concurrent specification

NULL == 0
Handles == 1..NumHandles
Ptrs == {NULL} \cup Handles
Threads == 1..NumThreads
Nothing == [ref |-> NULL, ph |-> 0]

VARIABLES
    count,      \* count[h]: the foreign reference count of h; 0 = deallocated
    ext,        \* ext[h]: count units held outside the wrappers (containers,
                \*         bare owned handles of the caller)
    val,        \* val[i]: the wrapper value of instance i while it is live
    st,         \* st[i]: "unused", "pending", "live", "dropping" or "dropped"
    ty,         \* number of generic parameters of the wrapper type in use
    releases,   \* CFRelease calls issued by drops of the type's instances
    panicked,   \* an assert! failed: the caller unwinds
    ub,         \* a foreign call was issued on a deallocated object
    hist,       \* the last operation, and the constructor call right before it
    scen,       \* progress of the create / wrap / clone / drop / drop scenario
    stolen,     \* stolen[h]: units wrappers claimed that were not the caller's
    leaked,     \* leaked[h]: units the caller abandoned to a retaining wrapper
    pc,         \* pc[t]: position of thread t inside clone / drop
    tmp,        \* tmp[t]: the locals of thread t
    owner,      \* owner[i]: the thread that owns instance i (0 = main)
    content,    \* content[h]: the value the foreign object h denotes
    decl        \* the wrapper type in use: how the macros were invoked for
                \*   it and the trait impls they generated

vars == <<count, ext, val, st, ty, releases, panicked, ub, hist, scen,
          stolen, leaked, pc, tmp, owner, content, decl>>

\* ------------------------------------------------------------- helpers
Ids == DOMAIN st
LiveOn(h) == Cardinality({i \in Ids : st[i] = "live" /\ val[i].ref = h})
HeldOn(h) == Cardinality({i \in Ids : st[i] \in {"live", "dropping"} /\ val[i].ref = h})
Created == Cardinality({i \in Ids : st[i] # "unused"})
Dropped == Cardinality({i \in Ids : st[i] = "dropped"})
HasFree == \E i \in Ids : st[i] = "unused"
FreeId == CHOOSE i \in Ids : st[i] = "unused" /\ \A j \in Ids : j < i => st[j] # "unused"

World == [count |-> count, calls |-> <<>>, ub |-> ub]

\* ------------------------------------------------ foreign primitives
\* CFRetain(cf): increments the count of cf and returns cf.
CFRetain(w, cf) ==
    [w |-> [count |-> IF w.count[cf] = 0 THEN w.count
                      ELSE [w.count EXCEPT ![cf] = @ + 1],
            calls |-> Append(w.calls, <<"CFRetain", cf>>),
            ub |-> w.ub \/ w.count[cf] = 0],
     ret |-> cf]

\* CFRelease(cf): decrements the count of cf; the object is deallocated at 0.
CFRelease(w, cf) ==
    [count |-> IF w.count[cf] = 0 THEN w.count
               ELSE [w.count EXCEPT ![cf] = @ - 1],
     calls |-> Append(w.calls, <<"CFRelease", cf>>),
     ub |-> w.ub \/ w.count[cf] = 0]

\* ------------------------------------------------ impl_TCFType!
as_concrete_TypeRef(self) == self.ref

as_CFTypeRef(self) == as_concrete_TypeRef(self)

\* Variants of the generated methods with one plausible slip each.
wrap_under_create_rule_unchecked(w, reference, np) ==
    [w |-> w, panic |-> FALSE, val |-> [ref |-> reference, ph |-> np]]

wrap_under_create_rule_retaining(w, reference, np) ==
    IF reference = NULL
      THEN [w |-> w, panic |-> TRUE, val |-> Nothing]
      ELSE [w |-> CFRetain(w, reference).w, panic |-> FALSE,
            val |-> [ref |-> reference, ph |-> np]]

\* assert non-null, then $ty(reference, PhantomData, ...): no foreign call.
wrap_under_create_rule(w, reference, np) ==
    IF reference = NULL
      THEN [w |-> w, panic |-> TRUE, val |-> Nothing]
      ELSE [w |-> w, panic |-> FALSE, val |-> [ref |-> reference, ph |-> np]]

wrap_under_get_rule_noretain(w, reference, np) ==
    IF reference = NULL
      THEN [w |-> w, panic |-> TRUE, val |-> Nothing]
      ELSE [w |-> w, panic |-> FALSE, val |-> [ref |-> reference, ph |-> np]]

\* assert non-null, CFRetain, then wrap_under_create_rule on its result.
wrap_under_get_rule(w, reference, np) ==
    IF reference = NULL
      THEN [w |-> w, panic |-> TRUE, val |-> Nothing]
      ELSE LET r == CFRetain(w, reference)
           IN  wrap_under_create_rule(r.w, r.ret, np)

clone_rawcopy(w, self) ==
    [w |-> w, panic |-> FALSE, val |-> [ref |-> self.ref, ph |-> self.ph]]

\* Clone::clone(&self) = $ty::wrap_under_get_rule(self.0)
clone(w, self) == wrap_under_get_rule(w, self.ref, self.ph)

\* ------------------------------------------------ declare_TCFType!
drop_twice(w, self) == CFRelease(CFRelease(w, self.ref), self.ref)

drop_norelease(w, self) == w

\* Drop::drop(&mut self) = CFRelease(self.as_CFTypeRef())
drop(w, self) == CFRelease(w, as_CFTypeRef(self))

\* ------------------------------------------------ foreign observers
\* CFEqual(a, b): whether the two objects denote equal content.
CFEqual(w, cf1, cf2) ==
    [w |-> [w EXCEPT !.calls = Append(@, <<"CFEqual", cf1, cf2>>),
                     !.ub = @ \/ w.count[cf1] = 0 \/ w.count[cf2] = 0],
     ret |-> content[cf1] = content[cf2]]

\* The three-way comparator a binding author hands to impl_CFComparison!
\* (CFDateCompare, CFNumberCompare, ...): kCFCompareLessThan = -1,
\* kCFCompareEqualTo = 0, kCFCompareGreaterThan = 1, by content.
Compare(w, a, b, context) ==
    [w |-> [w EXCEPT !.calls = Append(@, <<"compare", a, b, context>>),
                     !.ub = @ \/ w.count[a] = 0 \/ w.count[b] = 0],
     ret |-> IF content[a] < content[b] THEN -1
             ELSE IF content[a] = content[b] THEN 0 ELSE 1]

\* CFCopyDescription(cf): a text describing the content of cf.
CFCopyDescription(w, cf) ==
    [w |-> [w EXCEPT !.calls = Append(@, <<"CFCopyDescription", cf>>),
                     !.ub = @ \/ w.count[cf] = 0],
     ret |-> <<"description", content[cf]>>]

\* $ty_id(): the type identifier the foreign library reports for the type.
TypeIdQuery(w, np) ==
    [w |-> [w EXCEPT !.calls = Append(@, <<"$ty_id">>)],
     ret |-> <<"CFTypeID", np>>]

\* ------------------------------------------------ crate::base
\* TCFType::as_CFType(&self): the erased view, a CFType built with
\* wrap_under_get_rule from as_CFTypeRef().
as_CFType(w, self) == wrap_under_get_rule(w, as_CFTypeRef(self), 0)

\* PartialEq for CFType: CFEqual on the two erased handles.
CFType_eq(w, self, other) == CFEqual(w, as_CFTypeRef(self), as_CFTypeRef(other))

\* Debug for CFType: CFCopyDescription on the erased handle.
CFType_fmt(w, self) == CFCopyDescription(w, as_CFTypeRef(self))

\* TCFTypeRef::as_void_ptr: the same address, typed *const c_void.
as_void_ptr(p) == [addr |-> p, pointee |-> "c_void"]

\* From<CFComparisonResult> for Ordering.
Ordering == {"Less", "Equal", "Greater"}
IntoOrdering(r) == CASE r = -1 -> "Less" [] r = 0 -> "Equal" [] r = 1 -> "Greater"

\* Option<T>: None is <<>>, Some(x) is <<x>>.
None == <<>>
Some(x) == <<x>>

\* ------------------------------------------------ impl_TCFType!, continued
\* type_id() = $ty_id()
type_id(w, np) == TypeIdQuery(w, np)

eq_identity(w, self, other) ==
    [w |-> w, panic |-> FALSE, ret |-> self.ref = other.ref]

\* PartialEq::eq = self.as_CFType().eq(&other.as_CFType()); the two erased
\* temporaries are dropped, last built first, when the expression ends.
eq(w, self, other) ==
    LET a == as_CFType(w, self)
        b == as_CFType(a.w, other)
        r == CFType_eq(b.w, a.val, b.val)
    IN  [w |-> drop(drop(r.w, b.val), a.val),
         panic |-> a.panic \/ b.panic,
         ret |-> r.ret]

\* The address of the wrapper itself instead of the object it holds.
to_void_ref_addressof(self) == as_void_ptr(NumHandles + 1 + self.ph)

\* ToVoid for &'a $ty: self.as_concrete_TypeRef().as_void_ptr()
to_void_ref(self) == as_void_ptr(as_concrete_TypeRef(self))

\* ToVoid for $ty: self.as_concrete_TypeRef().as_void_ptr()
to_void_value(self) == as_void_ptr(as_concrete_TypeRef(self))

\* ToVoid for $ty_ref: self.as_void_ptr()
to_void_handle(reference) == as_void_ptr(reference)

\* ------------------------------------------------ impl_CFTypeDescription!
fmt_forget(w, self) ==
    LET a == as_CFType(w, self)
        r == CFType_fmt(a.w, a.val)
    IN  [w |-> r.w, panic |-> a.panic, ret |-> r.ret]

\* Debug::fmt = self.as_CFType().fmt(f); the erased temporary is dropped
\* when the expression ends.
fmt(w, self) ==
    LET a == as_CFType(w, self)
        r == CFType_fmt(a.w, a.val)
    IN  [w |-> drop(r.w, a.val), panic |-> a.panic, ret |-> r.ret]

\* ------------------------------------------------ impl_CFComparison!
partial_cmp_swapped(w, self, other) ==
    LET r == Compare(w, as_concrete_TypeRef(other), as_concrete_TypeRef(self), NULL)
    IN  [w |-> r.w, ret |-> Some(IntoOrdering(r.ret))]

partial_cmp_erased(w, self, other) ==
    LET a == as_CFType(w, self)
        b == as_CFType(a.w, other)
        r == Compare(b.w, as_concrete_TypeRef(self), as_concrete_TypeRef(other), NULL)
    IN  [w |-> drop(drop(r.w, b.val), a.val), ret |-> Some(IntoOrdering(r.ret))]

\* partial_cmp = Some($compare(self.as_concrete_TypeRef(),
\*                             other.as_concrete_TypeRef(), null_mut()).into())
partial_cmp(w, self, other) ==
    LET r == Compare(w, as_concrete_TypeRef(self), as_concrete_TypeRef(other), NULL)
    IN  [w |-> r.w, ret |-> Some(IntoOrdering(r.ret))]

cmp_reversed(w, self, other) ==
    LET r == partial_cmp(w, other, self)
    IN  [w |-> r.w, panic |-> FALSE, ret |-> r.ret[1]]

\* cmp = self.partial_cmp(other).unwrap(): panics on None.
cmp(w, self, other) ==
    LET r == partial_cmp(w, self, other)
    IN  IF r.ret = None
          THEN [w |-> r.w, panic |-> TRUE, ret |-> "none"]
          ELSE [w |-> r.w, panic |-> FALSE, ret |-> r.ret[1]]

\* ------------------------------------------------ what the macros emit
\* How a binding author names the type in a macro call: `$ty` alone, or
\* `$ty<$p, ...>` with a parameter list (which may be empty).
Forms == {"ident", "generic"}

\* pub unsafe trait ConcreteCFType: TCFType {} declares no item; the traits
\* the macros implement, with the methods each impl defines.
TraitMethods(t) ==
    CASE t = "Drop" -> {"drop"}
      [] t = "TCFType" -> {"as_concrete_TypeRef", "wrap_under_get_rule",
                           "as_CFTypeRef", "wrap_under_create_rule", "type_id"}
      [] t = "Clone" -> {"clone"}
      [] t = "PartialEq" -> {"eq"}
      [] t = "Debug" -> {"fmt"}
      [] t = "PartialOrd" -> {"partial_cmp"}
      [] t = "Ord" -> {"cmp"}
      [] t \in {"ToVoid for &$ty", "ToVoid for $ty", "ToVoid for $ty_ref"}
           -> {"to_void"}
      [] OTHER -> {}

Methods(impls) == UNION {TraitMethods(t) : t \in impls}

\* declare_TCFType!: the struct and its Drop impl, for either form.
declare_TCFType(form, np) == {"Drop"}

\* impl_TCFType!, the arm `$ty<$($p),*>`.
impl_TCFType_params(np) ==
    {"TCFType", "Clone", "PartialEq", "Eq",
     "ToVoid for &$ty", "ToVoid for $ty", "ToVoid for $ty_ref"}

impl_TCFType_unmarked(form, np) == impl_TCFType_params(np)

\* impl_TCFType!: the arm `$ty` calls the arm `$ty<>` and then emits
\* `unsafe impl ConcreteCFType for $ty { }`; the arm `$ty<...>` emits none.
impl_TCFType(form, np) ==
    IF form = "ident"
      THEN impl_TCFType_params(0) \cup {"ConcreteCFType"}
      ELSE impl_TCFType_params(np)

\* impl_CFTypeDescription! and impl_CFComparison!, for either form.
impl_CFTypeDescription(form, np) == {"Debug"}

impl_CFComparison(form, np) == {"PartialOrd", "Ord"}

\* A wrapper type declared with every macro, named in the given form.
Declare(form, np) ==
    [form |-> form,
     impls |-> declare_TCFType(form, np) \cup impl_TCFType(form, np)
                 \cup impl_CFTypeDescription(form, np)
                 \cup impl_CFComparison(form, np)]

\* A type without parameters is named `$ty`, one with parameters `$ty<..>`.
UsualForm(np) == IF np = 0 THEN "ident" ELSE "generic"

\* ------------------------------------------------------------- Init
NoLocals == [self |-> 0, new |-> 0, ref |-> NULL, val |-> Nothing]

NoThreads ==
    /\ pc = [t \in Threads |-> "idle"]
    /\ tmp = [t \in Threads |-> NoLocals]

NoHistory ==
    /\ releases = 0
    /\ panicked = FALSE
    /\ ub = FALSE
    /\ hist = <<>>
    /\ scen = [stage |-> 0, h |-> NULL, a |-> 0, b |-> 0]
    /\ stolen = [h \in Handles |-> 0]
    /\ leaked = [h \in Handles |-> 0]

Init ==
    /\ ext \in [Handles -> 0..MaxExt]
    /\ count = ext
    /\ ty \in 0..MaxParams
    /\ val = [i \in 1..MaxWrappers |-> Nothing]
    /\ st = [i \in 1..MaxWrappers |-> "unused"]
    /\ owner = [i \in 1..MaxWrappers |-> 0]
    /\ content = [h \in Handles |-> 1]
    /\ decl = Declare(UsualForm(ty), ty)
    /\ NoHistory
    /\ NoThreads

\* ------------------------------------------------------ bookkeeping
\* What a deallocated object's memory holds after a call on it is anything.
Garbage(c) == {c} \cup {[c EXCEPT ![h] = 1] : h \in Handles}

SetWorld(w) ==
    /\ ub' = w.ub
    /\ IF w.ub /\ ~ub THEN count' \in Garbage(w.count) ELSE count' = w.count
    /\ releases' = releases
         + Cardinality({k \in 1..Len(w.calls) : w.calls[k][1] = "CFRelease"})

Entry(op, i, src, h, w) ==
    [op |-> op, id |-> i, src |-> src, h |-> h,
     pre |-> IF h = NULL THEN 0 ELSE count[h],
     post |-> IF h = NULL THEN 0 ELSE w.count[h],
     frame |-> \A g \in Handles \ {h} : w.count[g] = count[g],
     calls |-> w.calls]

Constructors == {"wrap_create", "wrap_get", "clone", "mis_create", "mis_get"}

\* hist is the last operation, preceded by the one before it when that one
\* built a wrapper and the last one is a release.
Push(e) ==
    IF /\ Len(hist) >= 1
       /\ hist[Len(hist)].op \in Constructors
       /\ e.op \in {"drop", "ext_release"}
      THEN <<hist[Len(hist)], e>>
      ELSE <<e>>

Idle == [stage |-> 0, h |-> NULL, a |-> 0, b |-> 0]

\* The scenario: create-style call on h, wrap_under_create_rule, clone once,
\* drop the original, drop the clone; operations on other handles do not
\* disturb it, any other operation on h ends it.
ScenNext(e) ==
    CASE e.op = "create"
           -> [stage |-> 1, h |-> e.h, a |-> 0, b |-> 0]
      [] e.op # "create" /\ e.h # scen.h
           -> scen
      [] e.h = scen.h /\ scen.stage = 1 /\ e.op = "wrap_create"
           -> [scen EXCEPT !.stage = 2, !.a = e.id]
      [] e.h = scen.h /\ scen.stage = 2 /\ e.op = "clone" /\ e.src = scen.a
           -> [scen EXCEPT !.stage = 3, !.b = e.id]
      [] e.h = scen.h /\ scen.stage = 3 /\ e.op = "drop" /\ e.id = scen.a
           -> [scen EXCEPT !.stage = 4]
      [] e.h = scen.h /\ scen.stage = 4 /\ e.op = "drop" /\ e.id = scen.b
           -> [scen EXCEPT !.stage = 5]
      [] OTHER -> Idle

\* Commit the result r of a constructor into instance i.
Construct(i, r) ==
    /\ SetWorld(r.w)
    /\ panicked' = (panicked \/ r.panic)
    /\ IF r.panic
         THEN UNCHANGED <<val, st>>
         ELSE /\ val' = [val EXCEPT ![i] = r.val]
              /\ st' = [st EXCEPT ![i] = "live"]

\* ------------------------------------------- the foreign side's moves
\* A create-style foreign call: a new object with count 1, whose unit
\* belongs to the caller.
ForeignCreate(h) ==
    /\ ~ub /\ ~panicked
    /\ count[h] = 0 /\ ext[h] = 0 /\ HeldOn(h) = 0
    /\ count' = [count EXCEPT ![h] = 1]
    /\ ext' = [ext EXCEPT ![h] = 1]
    /\ hist' = <<>>
    /\ scen' = ScenNext([op |-> "create", h |-> h])
    /\ UNCHANGED <<val, st, ty, releases, panicked, ub, stolen, leaked,
                   pc, tmp, owner,
                   content, decl>>

\* A foreign holder (a container) takes a reference of its own on a live object.
ExtRetain(h) ==
    /\ ~ub /\ ~panicked
    /\ count[h] > 0
    /\ ext[h] < MaxExt
    /\ count' = [count EXCEPT ![h] = @ + 1]
    /\ ext' = [ext EXCEPT ![h] = @ + 1]
    /\ hist' = <<>>
    /\ scen' = ScenNext([op |-> "ext_retain", h |-> h])
    /\ UNCHANGED <<val, st, ty, releases, panicked, ub, stolen, leaked,
                   pc, tmp, owner,
                   content, decl>>

\* A holder outside the wrappers gives up its reference (the container is
\* destroyed): a foreign release the wrapper layer does not issue.
ExtRelease(h) ==
    /\ ~ub /\ ~panicked
    /\ ext[h] > 0
    /\ LET w == CFRelease(World, h)
       IN  /\ ub' = w.ub
           /\ IF w.ub THEN count' \in Garbage(w.count) ELSE count' = w.count
           /\ hist' = Push(Entry("ext_release", 0, 0, h, w))
           /\ scen' = ScenNext([op |-> "ext_release", h |-> h])
    /\ ext' = [ext EXCEPT ![h] = @ - 1]
    /\ UNCHANGED <<val, st, ty, releases, panicked, stolen, leaked,
                   pc, tmp, owner,
                   content, decl>>

\* ------------------------------------------------ the caller's moves
\* wrap_under_create_rule on a handle whose unit the caller owns (the
\* result of a create-style call), or on NULL.
WrapCreate(reference) ==
    /\ ~ub /\ ~panicked /\ HasFree
    /\ reference # NULL => ext[reference] > 0
    /\ LET r == wrap_under_create_rule(World, reference, ty)
           e == Entry("wrap_create", FreeId, 0, reference, r.w)
       IN  /\ Construct(FreeId, r)
           /\ ext' = IF r.panic THEN ext ELSE [ext EXCEPT ![reference] = @ - 1]
           /\ hist' = Push(e)
           /\ scen' = ScenNext(e)
    /\ UNCHANGED <<ty, stolen, leaked, pc, tmp, owner,
                   content, decl>>

\* wrap_under_get_rule on a handle borrowed from a live holder (the result
\* of a get-style call), or on NULL.
WrapGet(reference) ==
    /\ ~ub /\ ~panicked /\ HasFree
    /\ reference # NULL => count[reference] > 0
    /\ LET r == wrap_under_get_rule(World, reference, ty)
           e == Entry("wrap_get", FreeId, 0, reference, r.w)
       IN  /\ Construct(FreeId, r)
           /\ hist' = Push(e)
           /\ scen' = ScenNext(e)
    /\ UNCHANGED <<ext, ty, stolen, leaked, pc, tmp, owner,
                   content, decl>>

Clone(self) ==
    /\ ~ub /\ ~panicked /\ HasFree
    /\ st[self] = "live"
    /\ LET r == clone(World, val[self])
           e == Entry("clone", FreeId, self, val[self].ref, r.w)
       IN  /\ Construct(FreeId, r)
           /\ hist' = Push(e)
           /\ scen' = ScenNext(e)
    /\ UNCHANGED <<ext, ty, stolen, leaked, pc, tmp, owner,
                   content, decl>>

\* A live wrapper goes out of scope, on the normal path or while a panic
\* unwinds: the drop glue runs Drop::drop once and the value is gone.
Drop(self) ==
    /\ ~ub
    /\ st[self] = "live"
    /\ LET w == drop(World, val[self])
           e == Entry("drop", self, 0, val[self].ref, w)
       IN  /\ SetWorld(w)
           /\ hist' = Push(e)
           /\ scen' = ScenNext(e)
    /\ st' = [st EXCEPT ![self] = "dropped"]
    /\ val' = [val EXCEPT ![self] = Nothing]
    /\ UNCHANGED <<ext, ty, panicked, stolen, leaked, pc, tmp, owner,
                   content, decl>>

Next ==
    \/ \E h \in Handles : ForeignCreate(h)
    \/ \E h \in Handles : ExtRetain(h)
    \/ \E h \in Handles : ExtRelease(h)
    \/ \E p \in Ptrs : WrapCreate(p)
    \/ \E p \in Ptrs : WrapGet(p)
    \/ \E i \in Ids : Clone(i)
    \/ \E i \in Ids : Drop(i)

Spec == Init /\ [][Next]_vars

\* ------------------------------------- a caller that misclassifies
RECURSIVE Sum(_, _)
Sum(f, S) == IF S = {} THEN 0
             ELSE LET x == CHOOSE y \in S : TRUE IN f[x] + Sum(f, S \ {x})

Misuses == Sum(stolen, Handles) + Sum(leaked, Handles)

\* wrap_under_create_rule on a handle the caller only borrowed: the unit the
\* wrapper claims stays the holder's, who will release it too.
MisWrapCreate(h) ==
    /\ ~ub /\ ~panicked /\ HasFree
    /\ Misuses = 0
    /\ count[h] > 0
    /\ LET r == wrap_under_create_rule(World, h, ty)
           e == Entry("mis_create", FreeId, 0, h, r.w)
       IN  /\ Construct(FreeId, r)
           /\ hist' = Push(e)
           /\ scen' = ScenNext(e)
    /\ stolen' = [stolen EXCEPT ![h] = @ + 1]
    /\ UNCHANGED <<ext, ty, leaked, pc, tmp, owner,
                   content, decl>>

\* wrap_under_get_rule on a handle whose unit the caller owns: the caller
\* takes the wrapper for the owner of that unit and never releases it.
MisWrapGet(h) ==
    /\ ~ub /\ ~panicked /\ HasFree
    /\ Misuses = 0
    /\ ext[h] > 0
    /\ LET r == wrap_under_get_rule(World, h, ty)
           e == Entry("mis_get", FreeId, 0, h, r.w)
       IN  /\ Construct(FreeId, r)
           /\ hist' = Push(e)
           /\ scen' = ScenNext(e)
    /\ ext' = [ext EXCEPT ![h] = @ - 1]
    /\ leaked' = [leaked EXCEPT ![h] = @ + 1]
    /\ UNCHANGED <<ty, stolen, pc, tmp, owner,
                   content, decl>>

NextMis ==
    \/ Next
    \/ \E h \in Handles : MisWrapCreate(h)
    \/ \E h \in Handles : MisWrapGet(h)

\* One wrapper type and at most one misclassified call per run.
InitMis == Init /\ ty = 0

SpecMis == InitMis /\ [][NextMis]_vars

\* ------------------------------------------- a caller that observes
NumContents == 2     \* distinct contents the foreign objects may denote

Contents == 1..NumContents

\* Contents matter only through equality and order among themselves, so
\* the ones in use are numbered 1..k.
Arrangements ==
    {f \in [Handles -> Contents] :
        \A c \in Contents :
            (\E h \in Handles : f[h] = c) =>
                \A d \in 1..c : \E h \in Handles : f[h] = d}

\* Every object starts held by one outside holder (a container it was put
\* in); the wrapper type has every macro applied.
InitObs ==
    /\ ext = [h \in Handles |-> 1]
    /\ count = ext
    /\ ty = 0
    /\ decl = Declare(UsualForm(ty), ty)
    /\ content \in Arrangements
    /\ val = [i \in 1..MaxWrappers |-> Nothing]
    /\ st = [i \in 1..MaxWrappers |-> "unused"]
    /\ owner = [i \in 1..MaxWrappers |-> 0]
    /\ NoHistory
    /\ NoThreads

\* What a call on wrappers a (and b) did: the counts before and after, the
\* foreign calls it issued and the value it returned.
Outcome(op, a, b, w, ret) ==
    [op |-> op, id |-> a, src |-> b,
     h |-> val[a].ref, other |-> IF b = 0 THEN NULL ELSE val[b].ref,
     before |-> count, after |-> w.count, calls |-> w.calls, ret |-> ret]

\* Commit a call that builds and drops no instance of the wrapper type.
Observe(e, w, panic) ==
    /\ ub' = w.ub
    /\ IF w.ub /\ ~ub THEN count' \in Garbage(w.count) ELSE count' = w.count
    /\ panicked' = (panicked \/ panic)
    /\ hist' = <<e>>
    /\ UNCHANGED <<ext, val, st, ty, releases, scen, stolen, leaked,
                   pc, tmp, owner, content, decl>>

Has(method) == method \in Methods(decl.impls)

Usable(i) == ~ub /\ ~panicked /\ st[i] = "live"

AsConcreteTypeRef(a) ==
    /\ Usable(a) /\ Has("as_concrete_TypeRef")
    /\ Observe(Outcome("as_concrete_TypeRef", a, 0, World,
                       as_concrete_TypeRef(val[a])), World, FALSE)

AsCFTypeRef(a) ==
    /\ Usable(a) /\ Has("as_CFTypeRef")
    /\ Observe(Outcome("as_CFTypeRef", a, 0, World, as_CFTypeRef(val[a])),
               World, FALSE)

TypeId(a) ==
    /\ Usable(a) /\ Has("type_id")
    /\ LET r == type_id(World, ty)
       IN  Observe(Outcome("type_id", a, 0, r.w, r.ret), r.w, FALSE)

ToVoidRef(a) ==
    /\ Usable(a) /\ "ToVoid for &$ty" \in decl.impls
    /\ Observe(Outcome("to_void_ref", a, 0, World, to_void_ref(val[a])),
               World, FALSE)

ToVoidValue(a) ==
    /\ Usable(a) /\ "ToVoid for $ty" \in decl.impls
    /\ Observe(Outcome("to_void_value", a, 0, World, to_void_value(val[a])),
               World, FALSE)

\* to_void on the bare handle the caller read with as_concrete_TypeRef.
ToVoidHandle(a) ==
    /\ Usable(a) /\ "ToVoid for $ty_ref" \in decl.impls
    /\ Observe(Outcome("to_void_handle", a, 0, World,
                       to_void_handle(as_concrete_TypeRef(val[a]))),
               World, FALSE)

Eq(a, b) ==
    /\ Usable(a) /\ Usable(b) /\ Has("eq")
    /\ LET r == eq(World, val[a], val[b])
       IN  Observe(Outcome("eq", a, b, r.w, r.ret), r.w, r.panic)

Fmt(a) ==
    /\ Usable(a) /\ Has("fmt")
    /\ LET r == fmt(World, val[a])
       IN  Observe(Outcome("fmt", a, 0, r.w, r.ret), r.w, r.panic)

PartialCmp(a, b) ==
    /\ Usable(a) /\ Usable(b) /\ Has("partial_cmp")
    /\ LET r == partial_cmp(World, val[a], val[b])
       IN  Observe(Outcome("partial_cmp", a, b, r.w, r.ret), r.w, FALSE)

Cmp(a, b) ==
    /\ Usable(a) /\ Usable(b) /\ Has("cmp")
    /\ LET r == cmp(World, val[a], val[b])
       IN  Observe(Outcome("cmp", a, b, r.w, r.ret), r.w, r.panic)

NextObs ==
    \/ \E p \in Ptrs : WrapGet(p)
    \/ \E i \in Ids : Clone(i)
    \/ \E i \in Ids : Drop(i)
    \/ \E i \in Ids : AsConcreteTypeRef(i)
    \/ \E i \in Ids : AsCFTypeRef(i)
    \/ \E i \in Ids : TypeId(i)
    \/ \E i \in Ids : ToVoidRef(i)
    \/ \E i \in Ids : ToVoidValue(i)
    \/ \E i \in Ids : ToVoidHandle(i)
    \/ \E i, j \in Ids : Eq(i, j)
    \/ \E i, j \in Ids : PartialCmp(i, j)
    \/ \E i, j \in Ids : Cmp(i, j)

SpecObs == InitObs /\ [][NextObs]_vars

\* ------------------------------------------- either form of the type
\* The wrapper type is named in either form, with any number of parameters;
\* the objects all denote the same content.
InitDecl ==
    /\ ext = [h \in Handles |-> 1]
    /\ count = ext
    /\ ty \in 0..MaxParams
    /\ \E form \in Forms :
         /\ form = "ident" => ty = 0
         /\ decl = Declare(form, ty)
    /\ content = [h \in Handles |-> 1]
    /\ val = [i \in 1..MaxWrappers |-> Nothing]
    /\ st = [i \in 1..MaxWrappers |-> "unused"]
    /\ owner = [i \in 1..MaxWrappers |-> 0]
    /\ NoHistory
    /\ NoThreads

SpecDecl == InitDecl /\ [][NextObs]_vars

\* ------------------------------------------- a caller that describes
\* Wrappers are built, cloned, dropped and described while the outside
\* holders come and go.
InitDesc == Init /\ ty = 0

NextDesc ==
    \/ Next
    \/ \E i \in Ids : Fmt(i)

SpecDesc == InitDesc /\ [][NextDesc]_vars

\* ------------------------------------------------ several threads
\* Each thread clones and drops the wrappers it owns.  The one access to
\* shared state in either operation is the foreign call, an atomic step;
\* reading self.0 before it and building the value after it are local.
InitConc ==
    /\ \E n \in 0..MaxExt : ext = [h \in Handles |-> IF h = 1 THEN n ELSE 0]
    /\ count = [h \in Handles |-> IF h = 1 THEN ext[h] + NumThreads ELSE 0]
    /\ ty \in 0..MaxParams
    /\ val = [i \in 1..(NumThreads + MaxWrappers) |->
                IF i <= NumThreads THEN [ref |-> 1, ph |-> ty] ELSE Nothing]
    /\ st = [i \in 1..(NumThreads + MaxWrappers) |->
                IF i <= NumThreads THEN "live" ELSE "unused"]
    /\ owner = [i \in 1..(NumThreads + MaxWrappers) |->
                IF i <= NumThreads THEN i ELSE 0]
    /\ content = [h \in Handles |-> 1]
    /\ decl = Declare(UsualForm(ty), ty)
    /\ NoHistory
    /\ NoThreads

\* clone(&self): enter, with self borrowed and the result's place reserved.
CloneBegin(t, self) ==
    /\ ~ub /\ ~panicked /\ HasFree
    /\ pc[t] = "idle" /\ st[self] = "live" /\ owner[self] = t
    /\ pc' = [pc EXCEPT ![t] = "retain"]
    /\ tmp' = [tmp EXCEPT ![t] = [self |-> self, new |-> FreeId,
                                  ref |-> as_concrete_TypeRef(val[self]),
                                  val |-> Nothing]]
    /\ st' = [st EXCEPT ![FreeId] = "pending"]
    /\ owner' = [owner EXCEPT ![FreeId] = t]
    /\ UNCHANGED <<count, ext, val, ty, releases, panicked, ub, hist, scen,
                   stolen, leaked,
                   content, decl>>

\* clone(&self): the body runs; its CFRetain is the atomic step.
CloneRetain(t) ==
    /\ ~ub /\ pc[t] = "retain"
    /\ LET r == clone(World, val[tmp[t].self])
       IN  /\ SetWorld(r.w)
           /\ panicked' = (panicked \/ r.panic)
           /\ tmp' = [tmp EXCEPT ![t].val = r.val]
    /\ pc' = [pc EXCEPT ![t] = "wrap"]
    /\ UNCHANGED <<ext, val, st, ty, hist, scen, stolen, leaked, owner,
                   content, decl>>

\* clone(&self): the new wrapper is returned to the thread.
CloneReturn(t) ==
    /\ ~ub /\ pc[t] = "wrap"
    /\ val' = [val EXCEPT ![tmp[t].new] = tmp[t].val]
    /\ st' = [st EXCEPT ![tmp[t].new] = "live"]
    /\ pc' = [pc EXCEPT ![t] = "idle"]
    /\ tmp' = [tmp EXCEPT ![t] = NoLocals]
    /\ UNCHANGED <<count, ext, ty, releases, panicked, ub, hist, scen,
                   stolen, leaked, owner,
                   content, decl>>

\* drop(&mut self): the drop glue enters Drop::drop.
DropBegin(t, self) ==
    /\ ~ub
    /\ pc[t] = "idle" /\ st[self] = "live" /\ owner[self] = t
    /\ pc' = [pc EXCEPT ![t] = "release"]
    /\ tmp' = [tmp EXCEPT ![t] = [self |-> self, new |-> 0,
                                  ref |-> as_CFTypeRef(val[self]),
                                  val |-> Nothing]]
    /\ st' = [st EXCEPT ![self] = "dropping"]
    /\ UNCHANGED <<count, ext, val, ty, releases, panicked, ub, hist, scen,
                   stolen, leaked, owner,
                   content, decl>>

\* drop(&mut self): the body runs; its CFRelease is the atomic step.
DropRelease(t) ==
    /\ ~ub /\ pc[t] = "release"
    /\ SetWorld(drop(World, val[tmp[t].self]))
    /\ st' = [st EXCEPT ![tmp[t].self] = "dropped"]
    /\ val' = [val EXCEPT ![tmp[t].self] = Nothing]
    /\ pc' = [pc EXCEPT ![t] = "idle"]
    /\ tmp' = [tmp EXCEPT ![t] = NoLocals]
    /\ UNCHANGED <<ext, ty, panicked, hist, scen, stolen, leaked, owner,
                   content, decl>>

NextConc ==
    \/ \E t \in Threads, i \in Ids : CloneBegin(t, i)
    \/ \E t \in Threads : CloneRetain(t)
    \/ \E t \in Threads : CloneReturn(t)
    \/ \E t \in Threads, i \in Ids : DropBegin(t, i)
    \/ \E t \in Threads : DropRelease(t)

SpecConc == InitConc /\ [][NextConc]_vars

\* Units a thread has retained for a wrapper it has not yet been handed.
InFlight(h) ==
    Cardinality({t \in Threads : pc[t] = "wrap" /\ tmp[t].val.ref = h})

\* ------------------------------------------------------------ claims
IsOp(k, op) == Len(hist) >= k /\ hist[k].op = op /\ hist[k].h # NULL

\* hist holds a constructor call `op` and, right after it, the drop of the
\* wrapper it built.
ThenDropped(op) ==
    /\ Len(hist) = 2
    /\ IsOp(1, op) /\ IsOp(2, "drop")
    /\ hist[2].id = hist[1].id

\* C1: in every reachable state the count of each handle is the units held
\* outside the wrappers plus one per live wrapper on it: a clone adds one, a
\* drop removes one, and with no wrapper left the count is the baseline.
C1_Accounting ==
    \A h \in Handles : count[h] = ext[h] + LiveOn(h)

C1_Witness ==
    /\ Len(hist) = 2 /\ IsOp(1, "clone") /\ IsOp(2, "drop")
    /\ \E h \in Handles :
         hist[2].h = h /\ ext[h] = 1 /\ LiveOn(h) = 1 /\ count[h] = 2

\* C2: every drop issues exactly one CFRelease, on the wrapper's handle,
\* whatever the number of type parameters; the releases issued equal the
\* wrappers dropped and never exceed the wrappers created.
C2_ReleaseOnce ==
    /\ releases = Dropped
    /\ releases <= Created
    /\ \A k \in 1..Len(hist) :
         hist[k].op = "drop" => hist[k].calls = << <<"CFRelease", hist[k].h>> >>

C2_Witness ==
    /\ ty > 0
    /\ Dropped = 2 /\ releases = 2
    /\ IsOp(2, "drop")

\* C3: wrap_under_get_rule(h) on a non-null h followed at once by the drop
\* of the wrapper issues one CFRetain, then one CFRelease, and leaves the
\* count of h where it was before the call.
C3_GetThenDrop ==
    ThenDropped("wrap_get") =>
        /\ hist[1].calls = << <<"CFRetain", hist[1].h>> >>
        /\ hist[2].calls = << <<"CFRelease", hist[1].h>> >>
        /\ hist[2].post = hist[1].pre
        /\ count[hist[1].h] = hist[1].pre

C3_Witness == ThenDropped("wrap_get") /\ hist[1].pre = 1 /\ count[hist[1].h] = 1

\* C4: wrap_under_create_rule(h) on a non-null h issues no foreign call and
\* leaves the count unchanged; followed at once by the drop, the count is
\* one below its value at the call.
C4_CreateThenDrop ==
    /\ \A k \in 1..Len(hist) :
         IsOp(k, "wrap_create") =>
            hist[k].calls = <<>> /\ hist[k].post = hist[k].pre /\ hist[k].frame
    /\ ThenDropped("wrap_create") =>
         hist[2].post = hist[1].pre - 1 /\ count[hist[1].h] = hist[1].pre - 1

C4_Witness == ThenDropped("wrap_create") /\ hist[1].pre = 1 /\ count[hist[1].h] = 0

\* C5: either constructor called with NULL panics, builds no wrapper and
\* issues no foreign call, so every count is as before.
C5_NullFatal ==
    \A k \in 1..Len(hist) :
        hist[k].h = NULL =>
            /\ panicked
            /\ hist[k].op \in {"wrap_create", "wrap_get"}
            /\ hist[k].calls = <<>>
            /\ hist[k].frame
            /\ st[hist[k].id] = "unused"
            /\ \A i \in Ids : st[i] = "live" => val[i].ref # NULL

C5_WitnessGet ==
    /\ Len(hist) = 1 /\ hist[1].h = NULL /\ hist[1].op = "wrap_get"
    /\ panicked /\ LiveOn(1) = 1

\* C6: clone followed at once by the drop of the clone leaves the original
\* live on the same handle, the count where it was before the clone, and
\* the object allocated throughout.
C6_CloneThenDropClone ==
    ThenDropped("clone") =>
        /\ st[hist[1].src] = "live"
        /\ val[hist[1].src].ref = hist[1].h
        /\ hist[1].post >= 1 /\ hist[2].pre >= 1 /\ hist[2].post >= 1
        /\ hist[2].post = hist[1].pre
        /\ count[hist[1].h] = hist[1].pre
        /\ ~ub

C6_Witness == ThenDropped("clone") /\ hist[1].pre = 1 /\ count[hist[1].h] = 1

\* C7: create-style call, wrap_under_create_rule, clone once, drop the
\* original, drop the clone: the count is 1, 1, 2, 1 and reaches 0 exactly
\* at the drop of the clone.
C7_Scenario ==
    /\ scen.stage \in {1, 2, 4} => count[scen.h] = 1
    /\ scen.stage = 3 => count[scen.h] = 2
    /\ scen.stage = 4 => st[scen.a] = "dropped" /\ st[scen.b] = "live"
    /\ scen.stage = 5 => count[scen.h] = 0 /\ st[scen.b] = "dropped"

C7_Witness == scen.stage = 5 /\ count[scen.h] = 0 /\ releases = 2

\* C8: a wrapper built by wrap_under_get_rule from a handle borrowed from a
\* live holder stays valid when the holder releases its reference: the
\* object of every live wrapper has a count of at least 1.
C8_OutlivesHolder ==
    /\ ~ub
    /\ \A i \in Ids : st[i] = "live" => count[val[i].ref] >= 1
    /\ (Len(hist) = 2 /\ IsOp(1, "wrap_get") /\ IsOp(2, "ext_release")
          /\ hist[2].h = hist[1].h)
         => st[hist[1].id] = "live" /\ hist[2].post >= 1

C8_Witness ==
    /\ Len(hist) = 2 /\ IsOp(1, "wrap_get") /\ IsOp(2, "ext_release")
    /\ hist[2].h = hist[1].h
    /\ ext[hist[1].h] = 0 /\ count[hist[1].h] = 1 /\ st[hist[1].id] = "live"

\* C9: with atomic CFRetain / CFRelease, under every interleaving of clone
\* and drop by several threads on their own wrappers of one handle: no
\* foreign call hits a deallocated object, the count is the outside units
\* plus the wrappers not yet released plus the retains in flight (so with
\* every thread idle, the outside units plus the live wrappers), and it is
\* at least 1 while a wrapper on the handle is live.
C9_ConcurrentSafe ==
    /\ ~ub
    /\ \A h \in Handles : count[h] = ext[h] + HeldOn(h) + InFlight(h)
    /\ (\A t \in Threads : pc[t] = "idle") =>
          \A h \in Handles : count[h] = ext[h] + LiveOn(h)
    /\ \A i \in Ids : st[i] \in {"live", "dropping"} => count[val[i].ref] >= 1

C9_Witness ==
    /\ \E t1, t2 \in Threads :
          /\ pc[t1] = "wrap" /\ pc[t2] = "release"
          /\ tmp[t1].ref = tmp[t2].ref
    /\ Dropped >= 1

\* C10 as stated: a borrowed handle wrapped with wrap_under_create_rule and
\* then dropped leaves the count above its value before the wrapper (a leak).
C10_LeakAsClaimed ==
    (ThenDropped("mis_create") /\ ~ub) => count[hist[1].h] > hist[1].pre

\* C10 amended: a borrowed handle wrapped with wrap_under_create_rule and
\* then dropped leaves the count one below its value before the wrapper: the
\* holder's unit is released (an over-release), no unit is leaked.  In
\* general the count falls short of the units of the holders and live
\* wrappers by the units wrappers claimed without owning them.
C10_OverRelease ==
    /\ ~ub => \A h \in Handles :
                 count[h] + stolen[h] = ext[h] + LiveOn(h) + leaked[h]
    /\ (ThenDropped("mis_create") /\ ~ub) =>
          /\ hist[1].calls = <<>>
          /\ hist[2].post = hist[1].pre - 1
          /\ count[hist[1].h] = hist[1].pre - 1
          /\ count[hist[1].h] < ext[hist[1].h] + LiveOn(hist[1].h) + leaked[hist[1].h]

C10_Witness ==
    /\ ThenDropped("mis_create") /\ ~ub
    /\ hist[1].pre = 1 /\ count[hist[1].h] = 0 /\ ext[hist[1].h] = 1

\* C11 as stated: an owned handle wrapped with wrap_under_get_rule leads to
\* the object being released under a holder: once that wrapper is dropped the
\* count is below its value before the wrapper, or a call hit a freed object.
C11_UseAfterReleaseAsClaimed ==
    ThenDropped("mis_get") => (ub \/ count[hist[1].h] < hist[1].pre)

\* C11 amended: an owned handle wrapped with wrap_under_get_rule is leaked,
\* never released early: the call issues one CFRetain, the drop of the
\* wrapper brings the count back to its value before the call, where the
\* caller's unit is still counted though nobody will release it; from then
\* on the count stays one above the holders and live wrappers, the object is
\* never deallocated and no call hits a deallocated object.
C11_Leak ==
    /\ \A h \in Handles :
         leaked[h] > 0 =>
            /\ ~ub
            /\ count[h] = ext[h] + LiveOn(h) + leaked[h]
            /\ count[h] >= 1
    /\ ThenDropped("mis_get") =>
          /\ hist[1].calls = << <<"CFRetain", hist[1].h>> >>
          /\ hist[1].post = hist[1].pre + 1
          /\ hist[2].post = hist[1].pre
          /\ count[hist[1].h] = hist[1].pre
          /\ count[hist[1].h] > ext[hist[1].h] + LiveOn(hist[1].h)

C11_Witness ==
    /\ ThenDropped("mis_get")
    /\ hist[1].pre = 1 /\ count[hist[1].h] = 1
    /\ ext[hist[1].h] = 0 /\ LiveOn(hist[1].h) = 0 /\ leaked[hist[1].h] = 1

\* ------------------------------------------- claims about observers
Live(i) == st[i] = "live"

\* The last call was `op` and nothing went wrong in it.
Did(op) == Len(hist) = 1 /\ hist[1].op = op /\ ~ub /\ ~panicked

EqRet(a, b) == eq(World, val[a], val[b]).ret

\* C12: a == b is what CFEqual returns for the erased handles of a and b,
\* i.e. whether the two objects denote equal content: each call of eq
\* retains both handles for the erased views, calls CFEqual once on
\* (a's handle, b's handle), releases both and returns CFEqual's answer, so
\* wrappers on distinct handles of equal content are equal and wrappers on
\* handles of different content are not.
C12_EqDelegates ==
    /\ ~ub => \A a, b \in Ids :
         (Live(a) /\ Live(b)) =>
            /\ EqRet(a, b) = CFEqual(World, as_CFTypeRef(val[a]),
                                     as_CFTypeRef(val[b])).ret
            /\ EqRet(a, b) = (content[val[a].ref] = content[val[b].ref])
    /\ Did("eq") =>
         LET e == hist[1]
         IN  /\ e.calls = << <<"CFRetain", e.h>>, <<"CFRetain", e.other>>,
                            <<"CFEqual", e.h, e.other>>,
                            <<"CFRelease", e.other>>, <<"CFRelease", e.h>> >>
             /\ e.ret = (content[e.h] = content[e.other])

C12_Witness ==
    /\ Did("eq")
    /\ hist[1].h # hist[1].other
    /\ content[hist[1].h] = content[hist[1].other]
    /\ hist[1].ret = TRUE

\* C13, in every state: over the live wrappers == is reflexive (also between
\* a wrapper and its clone), symmetric and transitive, and it is CFEqual's
\* answer for wrappers on distinct handles.
C13_Equivalence ==
    ~ub =>
      /\ \A a, b \in Ids :
           (Live(a) /\ Live(b)) =>
              /\ EqRet(a, a)
              /\ EqRet(a, b) <=> EqRet(b, a)
              /\ \A c \in Ids :
                   (Live(c) /\ EqRet(a, b) /\ EqRet(b, c)) => EqRet(a, c)
              /\ EqRet(a, b) = CFEqual(World, as_CFTypeRef(val[a]),
                                       as_CFTypeRef(val[b])).ret
              /\ val[a].ref # val[b].ref =>
                   (EqRet(a, b) <=> content[val[a].ref] = content[val[b].ref])
      /\ (Did("clone") /\ Live(hist[1].src) /\ Live(hist[1].id)) =>
           EqRet(hist[1].src, hist[1].id)
      /\ Did("eq") => hist[1].ret = EqRet(hist[1].id, hist[1].src)

\* C13, in every step: what == reads, the contents of the objects and the
\* erased handle of each wrapper that stays live, is left as it was by every
\* operation (eq itself, clone, drop, ...); with the answer being CFEqual's
\* on those handles in every state, a later == answers as an earlier one.
C13_Stable ==
    /\ content' = content
    /\ \A a \in Ids :
         (Live(a) /\ st'[a] = "live") =>
            as_CFTypeRef(val'[a]) = as_CFTypeRef(val[a])

C14_ToVoidAgree ==
    /\ \A a \in Ids :
         Live(a) =>
            /\ to_void_value(val[a]) = to_void_ref(val[a])
            /\ to_void_ref(val[a]) = to_void_handle(as_concrete_TypeRef(val[a]))
            /\ to_void_value(val[a]).addr = val[a].ref
    /\ (Did("clone") /\ Live(hist[1].src) /\ Live(hist[1].id)) =>
         /\ to_void_value(val[hist[1].id]) = to_void_value(val[hist[1].src])
         /\ to_void_ref(val[hist[1].id]) = to_void_ref(val[hist[1].src])
    /\ \A op \in {"to_void_ref", "to_void_value", "to_void_handle"} :
         Did(op) =>
            /\ hist[1].ret.addr = hist[1].h
            /\ hist[1].ret = to_void_value(val[hist[1].id])

C14_Witness ==
    /\ Did("to_void_ref")
    /\ LiveOn(hist[1].h) = 2
    /\ hist[1].ret.addr = hist[1].h

PartialCmpRet(a, b) == partial_cmp(World, val[a], val[b]).ret

CmpRet(a, b) == cmp(World, val[a], val[b]).ret

\* How the contents of two objects relate.
Relation(x, y) ==
    IF content[x] < content[y] THEN "Less"
    ELSE IF content[x] = content[y] THEN "Equal" ELSE "Greater"

\* C16, in every state: over the live wrappers cmp never panics and is the
\* unwrapped partial_cmp; exactly one of Less, Equal, Greater holds of a
\* pair; a wrapper is Equal to itself; a < b iff b > a; Less and Equal are
\* transitive; and a repeated call returns what the last call returned.
C16_Order ==
    ~ub =>
      /\ \A a, b \in Ids :
           (Live(a) /\ Live(b)) =>
              /\ ~cmp(World, val[a], val[b]).panic
              /\ PartialCmpRet(a, b) = Some(CmpRet(a, b))
              /\ CmpRet(a, b) \in Ordering
              /\ CmpRet(a, b) = Relation(as_concrete_TypeRef(val[a]),
                                         as_concrete_TypeRef(val[b]))
              /\ CmpRet(a, a) = "Equal"
              /\ CmpRet(a, b) = "Less" <=> CmpRet(b, a) = "Greater"
              /\ CmpRet(a, b) = "Equal" <=> CmpRet(b, a) = "Equal"
              /\ \A c \in Ids :
                   Live(c) =>
                      /\ (CmpRet(a, b) = "Less" /\ CmpRet(b, c) = "Less")
                           => CmpRet(a, c) = "Less"
                      /\ (CmpRet(a, b) = "Equal" /\ CmpRet(b, c) = "Equal")
                           => CmpRet(a, c) = "Equal"
      /\ Did("cmp") => hist[1].ret = CmpRet(hist[1].id, hist[1].src)
      /\ Did("partial_cmp") =>
           hist[1].ret = Some(CmpRet(hist[1].id, hist[1].src))

\* C16, in every step: what a comparison reads, the contents of the objects
\* and the concrete handle of each wrapper that stays live, is left as it
\* was by every operation (a comparison, clone, drop, ...); with the answer
\* being the relation of those contents in every state, the same pair
\* compares the same at every later call.
C16_Stable ==
    /\ content' = content
    /\ \A a \in Ids :
         (Live(a) /\ st'[a] = "live") =>
            as_concrete_TypeRef(val'[a]) = as_concrete_TypeRef(val[a])

C17_PartialCmpDelegates ==
    /\ ~ub => \A a, b \in Ids :
         (Live(a) /\ Live(b)) =>
            /\ PartialCmpRet(a, b) # None
            /\ PartialCmpRet(a, b) =
                 Some(IntoOrdering(Compare(World, as_concrete_TypeRef(val[a]),
                                           as_concrete_TypeRef(val[b]), NULL).ret))
    /\ Did("partial_cmp") =>
         LET e == hist[1]
         IN  /\ e.calls = << <<"compare", e.h, e.other, NULL>> >>
             /\ e.ret = Some(Relation(e.h, e.other))

C17_Witness ==
    /\ Did("partial_cmp")
    /\ hist[1].h > hist[1].other
    /\ content[hist[1].h] < content[hist[1].other]
    /\ hist[1].ret = Some("Less")

ReadOnlyOps ==
    {"as_concrete_TypeRef", "as_CFTypeRef", "to_void_ref", "to_void_value",
     "to_void_handle", "type_id", "partial_cmp", "cmp"}

\* C19, in every state: the last call, if one of the read-only operations,
\* issued no CFRetain and no CFRelease and left every count as it was;
\* as_concrete_TypeRef and as_CFTypeRef return the stored handle, which right
\* after a constructor is the handle the constructor was given.
C19_NoForeignCount ==
    /\ \A op \in ReadOnlyOps :
         Did(op) =>
            /\ \A k \in 1..Len(hist[1].calls) :
                 hist[1].calls[k][1] \notin {"CFRetain", "CFRelease"}
            /\ hist[1].after = hist[1].before
            /\ count = hist[1].before
    /\ \A op \in {"as_concrete_TypeRef", "as_CFTypeRef"} :
         Did(op) => hist[1].ret = val[hist[1].id].ref
    /\ \A op \in {"wrap_get", "clone"} :
         (Did(op) /\ hist[1].h # NULL) =>
            /\ as_concrete_TypeRef(val[hist[1].id]) = hist[1].h
            /\ as_CFTypeRef(val[hist[1].id]) = hist[1].h

\* C19, in every step: a read-only operation changes no count, no wrapper
\* and no release total, and no step changes the handle a live wrapper
\* stores.
C19_Frame ==
    /\ (Len(hist') = 1 /\ hist'[1].op \in ReadOnlyOps) =>
          /\ count' = count /\ ub' = ub
          /\ val' = val /\ st' = st
          /\ releases' = releases
    /\ \A i \in Ids :
          (Live(i) /\ st'[i] = "live") => val'[i] = val[i]

\* C19: as_concrete_TypeRef, as_CFTypeRef, to_void (three forms), type_id,
\* partial_cmp and cmp issue no foreign retain or release and leave every
\* count and every stored handle unchanged; the two accessors return the
\* handle the wrapper was constructed with.
C19_ReadOnly == [](C19_NoForeignCount) /\ [][C19_Frame]_vars

C19_Witness ==
    /\ Did("as_CFTypeRef")
    /\ hist[1].ret = hist[1].h
    /\ count[hist[1].h] = 3
    /\ LiveOn(hist[1].h) = 2

\* The count of the described handle after the first k foreign calls of e.
CountAt(e, k) ==
    e.before[e.h]
      + Cardinality({j \in 1..k : e.calls[j] = <<"CFRetain", e.h>>})
      - Cardinality({j \in 1..k : e.calls[j] = <<"CFRelease", e.h>>})

\* C18: Debug::fmt retains the handle once for the erased temporary, asks
\* for the description, and releases the handle once before it returns: the
\* counts after the call are the counts before it, and at no point of the
\* call is the handle's count below the number of live wrappers on it.
C18_FmtNetZero ==
    Did("fmt") =>
        LET e == hist[1]
        IN  /\ e.calls = << <<"CFRetain", e.h>>, <<"CFCopyDescription", e.h>>,
                           <<"CFRelease", e.h>> >>
            /\ e.after = e.before
            /\ count = e.before
            /\ \A k \in 0..Len(e.calls) :
                 CountAt(e, k) >= LiveOn(e.h) /\ CountAt(e, k) >= 1
            /\ CountAt(e, 1) = e.before[e.h] + 1

C18_Witness ==
    /\ Did("fmt")
    /\ ext[hist[1].h] = 0 /\ LiveOn(hist[1].h) = 1 /\ count[hist[1].h] = 1
    /\ Dropped = 1

\* C20 as stated: every wrapper type impl_TCFType! is applied to, with or
\* without generic parameters, has the ConcreteCFType impl.
C20_MarkerAsClaimed == "ConcreteCFType" \in decl.impls

\* C20 amended: impl_TCFType! emits the ConcreteCFType impl exactly for a
\* type named without a parameter list; a type named `$ty<...>`, so every
\* type with generic parameters, gets the other impls and no marker.  The
\* marker has no method: the type's operations are the same without it.
C20_MarkerOnIdentForm ==
    /\ "ConcreteCFType" \in decl.impls <=> decl.form = "ident"
    /\ ty > 0 => "ConcreteCFType" \notin decl.impls
    /\ impl_TCFType_params(ty) \subseteq decl.impls
    /\ TraitMethods("ConcreteCFType") = {}
    /\ Methods(decl.impls) = Methods(decl.impls \ {"ConcreteCFType"})

C20_Witness ==
    /\ decl.form = "ident" /\ ty = 0
    /\ "ConcreteCFType" \in decl.impls
    /\ Did("type_id")

====
